---- MODULE Spec2Model ----
(***************************************************************************)
(* nii2dcm/dcm.py: the Dicom and DicomMRI builders.  A Dicom object is     *)
(* built by Dicom.__init__ (dictionary extension, file meta, baseline      *)
(* attributes, one clock read, study and series identifiers); DicomMRI     *)
(* runs the same build and then its own assignments.  The pydicom tag      *)
(* dictionary (DicomDictionary, keyword_dict), the UID generator and the   *)
(* wall clock are process-wide.                                            *)
(***************************************************************************)
EXTENDS Integers, Sequences, FiniteSets, TLC

\* ---------------------------------------------------------------- bounds
MaxObjs == 2
MaxClock == 2

Objs == 1..MaxObjs

\* ------------------------------------------------------------- constants
nii2dcm_temp_filename == "nii2dcm_tempfile.dcm"

Filenames == {nii2dcm_temp_filename, "out.dcm"}

Kinds == {"Dicom", "DicomMRI"}

MRImageStorage == "1.2.840.10008.5.1.4.1.1.4"

\* dcm_dictionary_update: new_dict_items, tag :> (VR, VM, description,
\* is_retired, keyword)
new_dict_items ==
    \h20011002 :> <<"IS", "1", "Chemical Shift Number MR", "", "ChemicalShiftNumberMR">> @@
    \h20011008 :> <<"IS", "1", "Phase Number", "", "PhaseNumber">> @@
    \h2001100A :> <<"IS", "1", "Slice Number MR", "", "SliceNumberMR">> @@
    \h2001100B :> <<"CS", "1", "Slice Orientation", "", "SliceOrientation">> @@
    \h20011014 :> <<"SL", "1", "Number Of Echoes", "", "NumberOfEchoes">> @@
    \h20011015 :> <<"SS", "1", "Number Of Locations", "", "NumberOfLocations">> @@
    \h20011016 :> <<"SS", "1", "Number Of PC Directions", "", "NumberOfPCDirections">> @@
    \h20011017 :> <<"SL", "1", "Number Of Phases MR", "", "NumberOfPhasesMR">> @@
    \h20011018 :> <<"SL", "1", "Number Of Slices MR", "", "NumberOfSlicesMR">> @@
    \h20011020 :> <<"LO", "1", "Scanning Technique", "", "ScanningTechnique">> @@
    \h20011025 :> <<"SH", "1", "Echo Time Display MR", "", "EchoTimeDisplayMR">> @@
    \h20011060 :> <<"SL", "1", "Number Of Stacks", "", "NumberOfStacks">> @@
    \h20011063 :> <<"CS", "1", "Examination Source", "", "ExaminationSource">> @@
    \h20011081 :> <<"IS", "1", "Number Of Dynamic Scans", "", "NumberOfDynamicScans">> @@
    \h2001101A :> <<"FL", "3", "PC Velocity", "", "PCVelocity">> @@
    \h2001101D :> <<"IS", "1", "Reconstruction Number MR", "", "ReconstructionNumberMR">> @@
    \h20051035 :> <<"CS", "1", "", "", "unknowntag20051035">> @@
    \h20051011 :> <<"CS", "1", "MR Image Type", "", "MRImageType">> @@
    \h2005106E :> <<"CS", "1", "MR Scan Sequence", "", "MRScanSequence">> @@
    \h2001105F :> <<"SQ", "1", "Stack", "", "Stack">> @@
    \h20010010 :> <<"LO", "1", "Private Creator", "", "PrivateCreator20010010">> @@
    \h2001102D :> <<"SS", "1", "StackNumberOfSlices", "", "StackNumberOfSlices">> @@
    \h20011032 :> <<"FL", "1", "StackRadialAngle", "", "StackRadialAngle">> @@
    \h20011033 :> <<"CS", "1", "StackRadialAxis", "", "StackRadialAxis">> @@
    \h20011035 :> <<"SS", "1", "MRSeriesDataType", "", "MRSeriesDataType">> @@
    \h20011036 :> <<"CS", "1", "StackType", "", "StackType">> @@
    \h20050010 :> <<"LO", "1", "Private Creator", "", "PrivateCreator20050010">> @@
    \h20050011 :> <<"LO", "1", "Private Creator", "", "PrivateCreator20050011">> @@
    \h20050012 :> <<"LO", "1", "Private Creator", "", "PrivateCreator20050012">> @@
    \h20050013 :> <<"LO", "1", "Private Creator", "", "PrivateCreator20050013">> @@
    \h20050014 :> <<"LO", "1", "Private Creator", "", "PrivateCreator20050014">> @@
    \h20050015 :> <<"LO", "1", "Private Creator", "", "PrivateCreator20050015">> @@
    \h20051071 :> <<"FL", "1", "MRStackAngulationAP", "", "MRStackAngulationAP">> @@
    \h20051072 :> <<"FL", "1", "MRStackAngulationFH", "", "MRStackAngulationFH">> @@
    \h20051073 :> <<"FL", "1", "MRStackAngulationRL", "", "MRStackAngulationRL">> @@
    \h20051074 :> <<"FL", "1", "MRStackFovAP", "", "MRStackFovAP">> @@
    \h20051075 :> <<"FL", "1", "MRStackFovFH", "", "MRStackFovFH">> @@
    \h20051076 :> <<"FL", "1", "MRStackFovRL", "", "MRStackFovRL">> @@
    \h20051078 :> <<"FL", "1", "MRStackOffcentreAP", "", "MRStackOffcentreAP">> @@
    \h20051079 :> <<"FL", "1", "MRStackOffcentreFH", "", "MRStackOffcentreFH">> @@
    \h2005107A :> <<"FL", "1", "MRStackOffcentreRL", "", "MRStackOffcentreRL">> @@
    \h2005107B :> <<"CS", "1", "MRStackPreparationDirection", "", "MRStackPreparationDirection">> @@
    \h2005107E :> <<"FL", "1", "MRStackSliceDistance", "", "MRStackSliceDistance">> @@
    \h20051081 :> <<"CS", "1", "MRStackViewAxis", "", "MRStackViewAxis">> @@
    \h2005143C :> <<"FL", "1", "MRStackTablePosLong", "", "MRStackTablePosLong">> @@
    \h2005143D :> <<"FL", "1", "MRStackTablePosLat", "", "MRStackTablePosLat">> @@
    \h2005143E :> <<"FL", "1", "MRStackPosteriorCoilPos", "", "MRStackPosteriorCoilPos">> @@
    \h20051567 :> <<"IS", "1", "MRPhilipsX1", "", "MRPhilipsX1">> @@
    \h00089209 :> <<"CS", "1", "Acquisition Contrast", "", "AcquisitionContrast">> @@
    \h00189014 :> <<"CS", "1", "Phase Contrast", "", "PhaseContrast">> @@
    \h00189090 :> <<"FD", "3", "Velocity Encoding Direction", "", "VelocityEncodingDirection">> @@
    \h00189091 :> <<"FD", "1", "Velocity Encoding Minimum Value", "", "VelocityEncodingMinimumValue">>

\* Python dict.update(other): keys of other are written over d, nothing is
\* deleted.
DictUpdateWrong(d, other) == other

DictUpdate(d, other) == other @@ d

\* new_names_dict = dict([(val[4], tag) for tag, val in new_dict_items.items()])
\* (Python val[4] is the fifth element, the keyword)
new_names_dictWrong ==
    [kw \in {new_dict_items[t][3] : t \in DOMAIN new_dict_items} |->
        CHOOSE t \in DOMAIN new_dict_items : new_dict_items[t][3] = kw]

new_names_dict ==
    [kw \in {new_dict_items[t][5] : t \in DOMAIN new_dict_items} |->
        CHOOSE t \in DOMAIN new_dict_items : new_dict_items[t][5] = kw]

\* pydicom.datadict as imported: the standard dictionary before any
\* registration (two of its entries), and its reverse keyword map.
StandardDictionary ==
    \h00080060 :> <<"CS", "1", "Modality", "", "Modality">> @@
    \h00089209 :> <<"CS", "1", "Acquisition Contrast", "", "AcquisitionContrast">>

StandardKeywords ==
    "Modality" :> \h00080060 @@ "AcquisitionContrast" :> \h00089209

\* A definition another package registered on one of the private tags, under
\* its own keyword.
ForeignDictionary ==
    \h20011002 :> <<"LO", "1", "Vendor Field", "", "VendorField">> @@
    StandardDictionary

ForeignKeywords == "VendorField" :> \h20011002 @@ StandardKeywords

\* Another package's tag that carries one of the private keywords.
CollidingDictionary ==
    \h00209999 :> <<"IS", "1", "Phase Number", "", "PhaseNumber">> @@
    StandardDictionary

CollidingKeywords == "PhaseNumber" :> \h00209999 @@ StandardKeywords

\* The states the process-wide dictionary can be in when the first object
\* of a run is built.
InitialDictionaries ==
    { <<StandardDictionary, StandardKeywords>>,
      <<DictUpdate(StandardDictionary, new_dict_items),
        DictUpdate(StandardKeywords, new_names_dict)>>,
      <<ForeignDictionary, ForeignKeywords>>,
      <<CollidingDictionary, CollidingKeywords>> }

\* ------------------------------------------------------------ the clock
\* datetime.datetime.now(): the wall clock advances in ticks, TicksPerDay to
\* the day, from midnight of 2026-11-01.
TicksPerDay == 2

HoursPerTick == 24 \div TicksPerDay

Now(clk) ==
    [year |-> 2026, month |-> 11, day |-> 1 + (clk \div TicksPerDay),
     hour |-> (clk % TicksPerDay) * HoursPerTick, minute |-> 0, second |-> 0,
     microsecond |-> 0]

NoDt ==
    [year |-> 0, month |-> 0, day |-> 0, hour |-> 0, minute |-> 0,
     second |-> 0, microsecond |-> 0]

Pad2(n) == IF n < 10 THEN "0" \o ToString(n) ELSE ToString(n)

Pad6(n) ==
    IF n < 10 THEN "00000" \o ToString(n)
    ELSE IF n < 100 THEN "0000" \o ToString(n)
    ELSE IF n < 1000 THEN "000" \o ToString(n)
    ELSE IF n < 10000 THEN "00" \o ToString(n)
    ELSE IF n < 100000 THEN "0" \o ToString(n)
    ELSE ToString(n)

\* dt.strftime('%Y%m%d')
dateStr(d) == ToString(d.year) \o Pad2(d.month) \o Pad2(d.day)

\* dt.strftime('%H%M%S.%f')
timeStr(d) ==
    Pad2(d.hour) \o Pad2(d.minute) \o Pad2(d.second) \o "." \o
    Pad6(d.microsecond)

\* The instant a date/time assignment of Dicom.__init__ formats: the dt
\* captured once, whatever the clock reads by then.
StampSourceWrong(captured, clk) == Now(clk)

StampSource(captured, clk) == captured

\* -------------------------------------------------------- UID generator
PYDICOM_ROOT_UID == "1.2.826.0.1.3680043.8.498."

\* pyd.uid.generate_uid(None), n being the number of UIDs handed out so far
generate_uid(n) == PYDICOM_ROOT_UID \o ToString(n)

\* ------------------------------------------------- attribute assignments
\* pydicom stores a DS (decimal string) value as the number it denotes
DS(s) == CASE s = "0" -> 0 [] s = "1" -> 1

PreambleLen == 128

\* lines 39-41
InitFileMeta ==
    [TransferSyntaxUID |-> "1.2.840.10008.1.2.1",
     ImplementationVersionName |-> "nii2dcm_DICOM"]

\* lines 44-68: FileDataset(filename, {}, ..., preamble=b"\0" * 128) and the
\* object-tier attributes
DsBaseWrong(f) ==
    [filename |-> f, preamble |-> [i \in 1..PreambleLen |-> 0]] @@
    [is_implicit_VR |-> FALSE, is_little_endian |-> TRUE,
     SpecificCharacterSet |-> "ISO_IR 100",
     ImageType |-> <<"DERIVED", "SECONDARY">>,
     ProtocolName |-> "nii2dcm_DICOM", PatientName |-> "Test^Firstname",
     PatientID |-> "12345678", AccessionNumber |-> "ABCXYZ",
     PatientBirthDate |-> "", PatientSex |-> "", PatientAge |-> "",
     PatientWeight |-> "", BodyPartExamined |-> "",
     InstitutionName |-> "INSTITUTION_NAME_NONE", Manufacturer |-> "",
     ManufacturerModelName |-> "", StudyDescription |-> "",
     InstanceCreatorUID |-> "", SoftwareVersions |-> "", SOPClassUID |-> "",
     Modality |-> "OT"]

DsBase(f) ==
    [filename |-> f, preamble |-> [i \in 1..PreambleLen |-> 0]] @@
    [is_implicit_VR |-> FALSE, is_little_endian |-> TRUE,
     SpecificCharacterSet |-> "ISO_IR 100",
     ImageType |-> <<"DERIVED", "SECONDARY">>,
     ProtocolName |-> "nii2dcm_DICOM", PatientName |-> "Test^Firstname",
     PatientID |-> "12345678", AccessionNumber |-> "ABCXYZ",
     PatientBirthDate |-> "", PatientSex |-> "", PatientAge |-> "",
     PatientWeight |-> "", BodyPartExamined |-> "",
     InstitutionName |-> "INSTITUTION_NAME_NONE", Manufacturer |-> "",
     ManufacturerModelName |-> "", StudyDescription |-> "",
     InstanceCreatorUID |-> "", SoftwareVersions |-> "", SOPClassUID |-> "",
     Modality |-> ""]

DateTimePairs ==
    <<"Content", "Study", "Series", "Acquisition", "InstanceCreation">>

\* lines 74-83, one pair: self.ds.<pair>Date = dateStr; <pair>Time = timeStr
DsStamp(d, pair, instant) ==
    ((pair \o "Date") :> dateStr(instant) @@
     (pair \o "Time") :> timeStr(instant)) @@ d

\* lines 85-105
DsImage(d) ==
    [Rows |-> "", Columns |-> "", PixelSpacing |-> "",
     PixelRepresentation |-> "", PatientPosition |-> "",
     ImageOrientationPatient |-> <<DS("1"), DS("0"), DS("0"), DS("0"), DS("1"), DS("0")>>,
     LossyImageCompression |-> "", RescaleIntercept |-> "",
     RescaleSlope |-> "", WindowCenter |-> "", WindowWidth |-> "",
     SOPInstanceUID |-> "", InstanceNumber |-> "", SliceThickness |-> "",
     SpacingBetweenSlices |-> "", SliceLocation |-> "",
     ImagePositionPatient |-> <<DS("0"), DS("0"), DS("0")>>]
    @@ d

\* init_study_tags, line 129
DsStudy(d, n) == [StudyInstanceUID |-> generate_uid(n)] @@ d

\* init_series_tags, lines 146-149
DsSeriesWrong(d, n) ==
    [SeriesInstanceUID |-> generate_uid(n),
     FrameOfReferenceUID |-> generate_uid(n),
     SeriesNumber |-> "", AcquisitionNumber |-> ""] @@ d

DsSeries(d, n) ==
    [SeriesInstanceUID |-> generate_uid(n),
     FrameOfReferenceUID |-> generate_uid(n + 1),
     SeriesNumber |-> "", AcquisitionNumber |-> ""] @@ d

\* DicomMRI.__init__ lines 247-259 on self.ds
MRSopDropsOverride(d) == [Modality |-> "MR", ImageType |-> d.ImageType] @@ d

MRSopResetsImageType(d) ==
    [Modality |-> "MR", SOPClassUID |-> MRImageStorage,
     ImageType |-> <<"ORIGINAL", "PRIMARY">>] @@ d

MRSop(d) ==
    [Modality |-> "MR", SOPClassUID |-> MRImageStorage,
     ImageType |-> d.ImageType] @@ d

\* line 252 on self.file_meta
MRSopMeta(m) == [MediaStorageSOPClassUID |-> MRImageStorage] @@ m

\* lines 270-273
PresentationLUTShapeFor(d) ==
    IF d.PhotometricInterpretation = "MONOCHROME2"
    THEN [PresentationLUTShape |-> "IDENTITY"] @@ d
    ELSE IF d.PhotometricInterpretation = "MONOCHROME1"
    THEN [PresentationLUTShape |-> "INVERSE"] @@ d
    ELSE d

\* lines 261-280
MRPixelWrong(d) ==
    [BitsAllocated |-> 16, BitsStored |-> "", HighBit |-> ""] @@
    PresentationLUTShapeFor(
        [SamplesPerPixel |-> "", PhotometricInterpretation |-> "MONOCHROME1"]
        @@ d)

MRPixel(d) ==
    [BitsAllocated |-> 16, BitsStored |-> "", HighBit |-> ""] @@
    PresentationLUTShapeFor(
        [SamplesPerPixel |-> "", PhotometricInterpretation |-> "MONOCHROME2"]
        @@ d)

\* the attributes of lines 282-333
MRAcquisitionAttributes ==
    {"ScanningSequence", "SequenceVariant", "ScanOptions",
     "MRAcquisitionType", "RepetitionTime", "EchoTime", "EchoTrainLength",
     "InversionTime", "TriggerTime", "SequenceName", "AngioFlag",
     "NumberOfAverages", "ImagingFrequency", "ImagedNucleus", "EchoNumbers",
     "MagneticFieldStrength", "NumberOfPhaseEncodingSteps",
     "PercentSampling", "PercentPhaseFieldOfView", "PixelBandwidth",
     "NominalInterval", "BeatRejectionFlag", "LowRRValue", "HighRRValue",
     "IntervalsAcquired", "IntervalsRejected", "PVCRejection", "SkipBeats",
     "HeartRate", "CardiacNumberOfImages", "TriggerWindow",
     "ReconstructionDiameter", "ReceiveCoilName", "TransmitCoilName",
     "AcquisitionMatrix", "InPlanePhaseEncodingDirection", "FlipAngle",
     "SAR", "VariableFlipAngleFlag", "dBdt", "TemporalPositionIdentifier",
     "NumberOfTemporalPositions", "TemporalResolution", "IsocenterPosition",
     "B1rms"}

\* lines 282-333
MRAcqWrong(d) == [a \in MRAcquisitionAttributes |-> "0"] @@ d

MRAcq(d) ==
    [ScanningSequence |-> "RM", SequenceVariant |-> "", ScanOptions |-> "",
     MRAcquisitionType |-> "", RepetitionTime |-> "", EchoTime |-> "",
     EchoTrainLength |-> "", InversionTime |-> "", TriggerTime |-> "",
     SequenceName |-> "", AngioFlag |-> "", NumberOfAverages |-> "",
     ImagingFrequency |-> "", ImagedNucleus |-> "", EchoNumbers |-> "",
     MagneticFieldStrength |-> "", NumberOfPhaseEncodingSteps |-> "",
     PercentSampling |-> "", PercentPhaseFieldOfView |-> "",
     PixelBandwidth |-> "", NominalInterval |-> "", BeatRejectionFlag |-> "",
     LowRRValue |-> "", HighRRValue |-> "", IntervalsAcquired |-> "",
     IntervalsRejected |-> "", PVCRejection |-> "", SkipBeats |-> "",
     HeartRate |-> "", CardiacNumberOfImages |-> "", TriggerWindow |-> "",
     ReconstructionDiameter |-> "", ReceiveCoilName |-> "",
     TransmitCoilName |-> "", AcquisitionMatrix |-> "",
     InPlanePhaseEncodingDirection |-> "", FlipAngle |-> "", SAR |-> "",
     VariableFlipAngleFlag |-> "", dBdt |-> "",
     TemporalPositionIdentifier |-> "", NumberOfTemporalPositions |-> "",
     TemporalResolution |-> "", IsocenterPosition |-> "", B1rms |-> ""]
    @@ d

\* ---------------------------------------------------------------- state
VARIABLES
    DicomDictionary,   \* pydicom.datadict.DicomDictionary: tag -> entry
    keyword_dict,      \* pydicom.datadict.keyword_dict: keyword -> tag
    clock,             \* the wall clock, in ticks
    uidCount,          \* UIDs handed out by pyd.uid.generate_uid so far
    pc,                \* per object: the next block of __init__ to run
    kind,              \* per object: the class constructed
    filename,          \* per object: self.filename
    file_meta,         \* per object: self.file_meta
    ds,                \* per object: self.ds
    dt,                \* per object: the local dt of Dicom.__init__
    dictUpdates,       \* per object: calls of dcm_dictionary_update
    clockReads,        \* per object: calls of datetime.datetime.now()
    written,           \* what the serializer was last handed
    raised             \* the exception the caller's last call ended with

vars ==
    <<DicomDictionary, keyword_dict, clock, uidCount, pc, kind, filename,
      file_meta,
      ds, dt, dictUpdates, clockReads, written, raised>>

dictVars == <<DicomDictionary, keyword_dict>>

objVars == <<kind, filename, file_meta, ds, dt, dictUpdates, clockReads>>

ioVars == <<written, raised>>

Unset == [a \in {} |-> ""]

NothingWritten == [filename |-> "", ds |-> Unset, file_meta |-> Unset]

\* The blocks of Dicom.__init__ and DicomMRI.__init__ in program order.
PcOrderSeriesFirst ==
    <<"idle", "dict", "names", "meta", "base", "now",
      "stamp_Content", "stamp_Study", "stamp_Series", "stamp_Acquisition",
      "stamp_InstanceCreation", "image", "series", "study",
      "mr_sop", "mr_pixel", "mr_acq", "done">>

PcOrder ==
    <<"idle", "dict", "names", "meta", "base", "now",
      "stamp_Content", "stamp_Study", "stamp_Series", "stamp_Acquisition",
      "stamp_InstanceCreation", "image", "study", "series",
      "mr_sop", "mr_pixel", "mr_acq", "done">>

PcIndex(order, p) == CHOOSE i \in 1..Len(order) : order[i] = p

\* The block that follows p: Dicom.__init__ returns after init_series_tags
\* (line 108), DicomMRI.__init__ goes on with line 247.
Successor(order, p, k) ==
    LET q == order[PcIndex(order, p) + 1]
    IN  IF k = "Dicom" /\ q = "mr_sop" THEN "done" ELSE q

NextPcSeriesFirst(p, k) == Successor(PcOrderSeriesFirst, p, k)

NextPc(p, k) == Successor(PcOrder, p, k)

Advance(o) == pc' = [pc EXCEPT ![o] = NextPc(pc[o], kind[o])]

InitObjects ==
    /\ clock = 0
    /\ uidCount = 0
    /\ pc = [o \in Objs |-> "idle"]
    /\ kind = [o \in Objs |-> "Dicom"]
    /\ filename = [o \in Objs |-> ""]
    /\ file_meta = [o \in Objs |-> Unset]
    /\ ds = [o \in Objs |-> Unset]
    /\ dt = [o \in Objs |-> NoDt]
    /\ dictUpdates = [o \in Objs |-> 0]
    /\ clockReads = [o \in Objs |-> 0]
    /\ written = NothingWritten
    /\ raised = "none"

\* A fresh process: pydicom's dictionary as imported.
Init ==
    /\ DicomDictionary = StandardDictionary
    /\ keyword_dict = StandardKeywords
    /\ InitObjects

\* A process in which the dictionary may have been extended before.
InitAnyDictionary ==
    /\ \E s \in InitialDictionaries :
          /\ DicomDictionary = s[1]
          /\ keyword_dict = s[2]
    /\ InitObjects

\* --------------------------------------------------------------- actions
\* The clock advances on its own.
Tick ==
    /\ clock < MaxClock
    /\ clock' = clock + 1
    /\ UNCHANGED <<dictVars, uidCount, pc, objVars, ioVars>>

\* A caller constructs Dicom(f) or DicomMRI(f): line 29 (through line 245
\* for DicomMRI).  Objects are numbered in the order they are constructed.
Construct(o, k, f) ==
    /\ pc[o] = "idle"
    /\ \A q \in Objs : q < o => pc[q] # "idle"
    /\ kind' = [kind EXCEPT ![o] = k]
    /\ filename' = [filename EXCEPT ![o] = f]
    /\ raised' = "none"
    /\ pc' = [pc EXCEPT ![o] = NextPc("idle", k)]
    /\ UNCHANGED <<dictVars, clock, uidCount, file_meta, ds, dt, dictUpdates,
                   clockReads, written>>

\* dcm_dictionary_update, line 225: DicomDictionary.update(new_dict_items)
UpdateDictionary(o) ==
    /\ pc[o] = "dict"
    /\ DicomDictionary' = DictUpdate(DicomDictionary, new_dict_items)
    /\ dictUpdates' = [dictUpdates EXCEPT ![o] = @ + 1]
    /\ Advance(o)
    /\ UNCHANGED <<keyword_dict, clock, uidCount, kind, filename, file_meta,
                   ds, dt, clockReads, ioVars>>

\* dcm_dictionary_update, lines 228-229: keyword_dict.update(new_names_dict)
UpdateKeywords(o) ==
    /\ pc[o] = "names"
    /\ keyword_dict' = DictUpdate(keyword_dict, new_names_dict)
    /\ Advance(o)
    /\ UNCHANGED <<DicomDictionary, clock, uidCount, objVars, ioVars>>

\* lines 39-41
BuildFileMeta(o) ==
    /\ pc[o] = "meta"
    /\ file_meta' = [file_meta EXCEPT ![o] = InitFileMeta]
    /\ Advance(o)
    /\ UNCHANGED <<dictVars, clock, uidCount, kind, filename, ds, dt,
                   dictUpdates, clockReads, ioVars>>

\* lines 44-68
BuildBase(o) ==
    /\ pc[o] = "base"
    /\ ds' = [ds EXCEPT ![o] = DsBase(filename[o])]
    /\ Advance(o)
    /\ UNCHANGED <<dictVars, clock, uidCount, kind, filename, file_meta, dt,
                   dictUpdates, clockReads, ioVars>>

\* lines 70-72: dt = datetime.datetime.now()
ReadClock(o) ==
    /\ pc[o] = "now"
    /\ dt' = [dt EXCEPT ![o] = Now(clock)]
    /\ clockReads' = [clockReads EXCEPT ![o] = @ + 1]
    /\ Advance(o)
    /\ UNCHANGED <<dictVars, clock, uidCount, kind, filename, file_meta, ds,
                   dictUpdates, ioVars>>

\* lines 74-83, one Date/Time pair at a time
StampDateTime(o) ==
    /\ \E i \in 1..Len(DateTimePairs) :
          /\ pc[o] = "stamp_" \o DateTimePairs[i]
          /\ ds' = [ds EXCEPT ![o] =
                      DsStamp(@, DateTimePairs[i], StampSource(dt[o], clock))]
    /\ Advance(o)
    /\ UNCHANGED <<dictVars, clock, uidCount, kind, filename, file_meta, dt,
                   dictUpdates, clockReads, ioVars>>

\* lines 85-105
BuildImage(o) ==
    /\ pc[o] = "image"
    /\ ds' = [ds EXCEPT ![o] = DsImage(@)]
    /\ Advance(o)
    /\ UNCHANGED <<dictVars, clock, uidCount, kind, filename, file_meta, dt,
                   dictUpdates, clockReads, ioVars>>

\* init_study_tags
init_study_tags(o) ==
    /\ pc[o] = "study"
    /\ ds' = [ds EXCEPT ![o] = DsStudy(@, uidCount)]
    /\ uidCount' = uidCount + 1
    /\ Advance(o)
    /\ UNCHANGED <<dictVars, clock, kind, filename, file_meta, dt,
                   dictUpdates, clockReads, ioVars>>

\* init_series_tags
init_series_tags(o) ==
    /\ pc[o] = "series"
    /\ ds' = [ds EXCEPT ![o] = DsSeries(@, uidCount)]
    /\ uidCount' = uidCount + 2
    /\ Advance(o)
    /\ UNCHANGED <<dictVars, clock, kind, filename, file_meta, dt,
                   dictUpdates, clockReads, ioVars>>

\* DicomMRI.__init__ lines 247-259
MROverride(o) ==
    /\ pc[o] = "mr_sop"
    /\ ds' = [ds EXCEPT ![o] = MRSop(@)]
    /\ file_meta' = [file_meta EXCEPT ![o] = MRSopMeta(@)]
    /\ Advance(o)
    /\ UNCHANGED <<dictVars, clock, uidCount, kind, filename, dt,
                   dictUpdates, clockReads, ioVars>>

\* DicomMRI.__init__ lines 261-280
MRImagePixel(o) ==
    /\ pc[o] = "mr_pixel"
    /\ ds' = [ds EXCEPT ![o] = MRPixel(@)]
    /\ Advance(o)
    /\ UNCHANGED <<dictVars, clock, uidCount, kind, filename, file_meta, dt,
                   dictUpdates, clockReads, ioVars>>

\* DicomMRI.__init__ lines 282-333
MRAcquisition(o) ==
    /\ pc[o] = "mr_acq"
    /\ ds' = [ds EXCEPT ![o] = MRAcq(@)]
    /\ Advance(o)
    /\ UNCHANGED <<dictVars, clock, uidCount, kind, filename, file_meta, dt,
                   dictUpdates, clockReads, ioVars>>

\* The caller reassigns get_dataset().PhotometricInterpretation on a
\* constructed MR object; the Dataset stores the value and nothing else.
PhotometricValues == {"MONOCHROME1", "MONOCHROME2"}

SetPhotometricInterpretation(o, v) ==
    /\ pc[o] = "done"
    /\ kind[o] = "DicomMRI"
    /\ ds' = [ds EXCEPT ![o] = [PhotometricInterpretation |-> v] @@ @]
    /\ raised' = "none"
    /\ UNCHANGED <<dictVars, clock, uidCount, pc, kind, filename, file_meta,
                   dt, dictUpdates, clockReads, written>>

\* The serializer's results: ds.save_as returns, or raises one of its errors.
SerializerOutcomes == {"success", "IOError", "EncodingError"}

\* save_as, lines 116-118: self.ds.save_as(self.filename); whatever it
\* raises leaves save_as as it is.
save_as(o, outcome) ==
    /\ pc[o] = "done"
    /\ written' = [filename |-> filename[o], ds |-> ds[o],
                   file_meta |-> file_meta[o]]
    /\ raised' = IF outcome = "success" THEN "none" ELSE outcome
    /\ UNCHANGED <<dictVars, clock, uidCount, pc, objVars>>

\* One block of a construction.
BuildStep(o) ==
    \/ \E k \in Kinds, f \in Filenames : Construct(o, k, f)
    \/ UpdateDictionary(o)
    \/ UpdateKeywords(o)
    \/ BuildFileMeta(o)
    \/ BuildBase(o)
    \/ ReadClock(o)
    \/ StampDateTime(o)
    \/ BuildImage(o)
    \/ init_study_tags(o)
    \/ init_series_tags(o)
    \/ MROverride(o)
    \/ MRImagePixel(o)
    \/ MRAcquisition(o)

\* dcm.py takes no lock and starts no thread: one caller, one call at a time.
Quiet(o) == \A q \in Objs \ {o} : pc[q] \in {"idle", "done"}

Next ==
    \/ Tick
    \/ \E o \in Objs, k \in Kinds, f \in Filenames :
          Quiet(o) /\ Construct(o, k, f)
    \/ \E o \in Objs : Quiet(o) /\ UpdateDictionary(o)
    \/ \E o \in Objs : Quiet(o) /\ UpdateKeywords(o)
    \/ \E o \in Objs : Quiet(o) /\ BuildFileMeta(o)
    \/ \E o \in Objs : Quiet(o) /\ BuildBase(o)
    \/ \E o \in Objs : Quiet(o) /\ ReadClock(o)
    \/ \E o \in Objs : Quiet(o) /\ StampDateTime(o)
    \/ \E o \in Objs : Quiet(o) /\ BuildImage(o)
    \/ \E o \in Objs : Quiet(o) /\ init_study_tags(o)
    \/ \E o \in Objs : Quiet(o) /\ init_series_tags(o)
    \/ \E o \in Objs : Quiet(o) /\ MROverride(o)
    \/ \E o \in Objs : Quiet(o) /\ MRImagePixel(o)
    \/ \E o \in Objs : Quiet(o) /\ MRAcquisition(o)
    \/ \E o \in Objs, v \in PhotometricValues :
          Quiet(o) /\ SetPhotometricInterpretation(o, v)
    \/ \E o \in Objs, r \in SerializerOutcomes :
          Quiet(o) /\ save_as(o, r)

Spec == Init /\ [][Next]_vars

\* The constructions of one caller, from any state of the dictionary.
NextBuild == \E o \in Objs : Quiet(o) /\ BuildStep(o)

SpecReg == InitAnyDictionary /\ [][NextBuild]_vars

\* Constructions on separate threads, no lock: their blocks interleave.
NextConc == \E o \in Objs : BuildStep(o)

SpecConc == Init /\ [][NextConc]_vars

\* ---------------------------------------------------------------- claims
Constructed(o) == pc[o] = "done"

MRDone(o) == pc[o] = "done" /\ kind[o] = "DicomMRI"

BaselineDone(o) == pc[o] = "done" /\ kind[o] = "Dicom"

\* C1: every constructed DicomMRI object, whatever its filename, has
\* Modality 'MR', SOPClassUID and MediaStorageSOPClassUID
\* '1.2.840.10008.5.1.4.1.1.4' and BitsAllocated 16; the empty Modality and
\* SOPClassUID of the baseline constructor are not its final values.
C1_MRFixedFields ==
    \A o \in Objs :
        MRDone(o) =>
            /\ ds[o].Modality = "MR"
            /\ ds[o].SOPClassUID = "1.2.840.10008.5.1.4.1.1.4"
            /\ file_meta[o].MediaStorageSOPClassUID = "1.2.840.10008.5.1.4.1.1.4"
            /\ ds[o].BitsAllocated = 16

C1_Witness ==
    \E o \in Objs : MRDone(o) /\ filename[o] # nii2dcm_temp_filename

\* C2 as stated: in every state of a constructed MR Dataset, also after the
\* caller reassigned PhotometricInterpretation, MONOCHROME2 goes with
\* PresentationLUTShape IDENTITY and MONOCHROME1 with INVERSE.
C2_Original ==
    \A o \in Objs :
        MRDone(o) =>
            /\ ds[o].PhotometricInterpretation = "MONOCHROME2"
                  => ds[o].PresentationLUTShape = "IDENTITY"
            /\ ds[o].PhotometricInterpretation = "MONOCHROME1"
                  => ds[o].PresentationLUTShape = "INVERSE"

\* C2 amended: a DicomMRI construction ends with PhotometricInterpretation
\* MONOCHROME2 and PresentationLUTShape IDENTITY, and PresentationLUTShape
\* stays IDENTITY whatever the caller assigns to PhotometricInterpretation
\* afterwards.
C2_LUTShapeSetOnce ==
    /\ [](\A o \in Objs : MRDone(o) => ds[o].PresentationLUTShape = "IDENTITY")
    /\ [][\A o \in Objs :
            (pc[o] # "done" /\ pc'[o] = "done" /\ kind[o] = "DicomMRI")
               => ds'[o].PhotometricInterpretation = "MONOCHROME2"]_vars

C2_Witness ==
    \E o \in Objs :
        MRDone(o) /\ ds[o].PhotometricInterpretation = "MONOCHROME1"

UIDAttributes ==
    {"StudyInstanceUID", "SeriesInstanceUID", "FrameOfReferenceUID"}

UIDsOf(o) == {ds[o][a] : a \in UIDAttributes}

\* C3: with a UID generator that never repeats a value, every constructed
\* Dataset has non-empty, mutually distinct StudyInstanceUID,
\* SeriesInstanceUID and FrameOfReferenceUID, and two constructed Datasets
\* share none of these values.
C3_FreshUIDs ==
    /\ \A o \in Objs :
          Constructed(o) =>
              /\ \A a \in UIDAttributes : ds[o][a] # ""
              /\ Cardinality(UIDsOf(o)) = 3
    /\ \A o, q \in Objs :
          (o # q /\ Constructed(o) /\ Constructed(q))
             => UIDsOf(o) \cap UIDsOf(q) = {}

C3_Witness ==
    \E o, q \in Objs : BaselineDone(o) /\ MRDone(q) /\ o < q

DateTimeAttributes ==
    {DateTimePairs[i] \o "Date" : i \in 1..Len(DateTimePairs)} \cup
    {DateTimePairs[i] \o "Time" : i \in 1..Len(DateTimePairs)}

\* C4: a construction reads the clock once, and the Date fields assigned so
\* far all hold one date and the Time fields one time, those of the instant
\* read, even when the clock has advanced between the assignments; a
\* constructed Dataset has all five pairs.
C4_OneInstant ==
    \A o \in Objs :
        /\ clockReads[o] <= 1
        /\ \A i \in 1..Len(DateTimePairs) :
              (DateTimePairs[i] \o "Date") \in DOMAIN ds[o] =>
                  /\ ds[o][DateTimePairs[i] \o "Date"] = ds[o].ContentDate
                  /\ ds[o][DateTimePairs[i] \o "Time"] = ds[o].ContentTime
                  /\ ds[o].ContentDate = dateStr(dt[o])
                  /\ ds[o].ContentTime = timeStr(dt[o])
        /\ Constructed(o) =>
              /\ clockReads[o] = 1
              /\ DateTimeAttributes \subseteq DOMAIN ds[o]

C4_Witness ==
    \E o \in Objs :
        /\ pc[o] = "image"
        /\ dateStr(Now(clock)) # ds[o].ContentDate
        /\ timeStr(Now(clock)) # ds[o].InstanceCreationTime

Registered == \E o \in Objs : pc[o] \notin {"idle", "dict", "names"}

\* C5: from any state of the tag dictionary and the reverse keyword map,
\* once one dcm_dictionary_update has run, running it again changes neither
\* map, and no run removes a tag or a keyword that was registered.
C5_Idempotent ==
    /\ [][Registered =>
            /\ DicomDictionary' = DicomDictionary
            /\ keyword_dict' = keyword_dict]_vars
    /\ [][/\ DOMAIN DicomDictionary \subseteq DOMAIN DicomDictionary'
          /\ DOMAIN keyword_dict \subseteq DOMAIN keyword_dict']_vars

C5_Witness ==
    /\ \E o, q \in Objs :
          o # q /\ pc[o] = "done" /\ pc[q] \notin {"idle", "dict", "names"}
    /\ "VendorField" \in DOMAIN keyword_dict

\* C6 as stated: every MR-acquisition attribute of a constructed DicomMRI
\* (lines 282-333) is an empty placeholder.
C6_Original ==
    \A o \in Objs :
        MRDone(o) => \A a \in MRAcquisitionAttributes : ds[o][a] = ""

\* C6 amended: every MR-acquisition attribute of a constructed DicomMRI is
\* an empty placeholder, except ScanningSequence, which is 'RM'.
C6_PlaceholdersButScanningSequence ==
    \A o \in Objs :
        MRDone(o) =>
            /\ MRAcquisitionAttributes \subseteq DOMAIN ds[o]
            /\ \A a \in MRAcquisitionAttributes \ {"ScanningSequence"} :
                  ds[o][a] = ""
            /\ ds[o].ScanningSequence = "RM"

C6_Witness ==
    \E o \in Objs : MRDone(o) /\ "B1rms" \in DOMAIN ds[o] /\ ds[o].EchoTime = ""

InMRPart(o) ==
    kind[o] = "DicomMRI" /\ pc[o] \in {"mr_sop", "mr_pixel", "mr_acq"}

PerBuildAttributes == UIDAttributes \cup DateTimeAttributes \cup {"filename"}

\* C7: the MR part of a construction only adds attributes and overrides
\* Modality and SOPClassUID: each of its blocks leaves every other attribute
\* the baseline part set, and the file meta entries, as they were; so a
\* constructed MR Dataset agrees with a constructed baseline Dataset on
\* every baseline attribute but those two (and on the filename and the
\* date/time fields when these inputs were the same), with
\* ImageOrientationPatient [1,0,0,0,1,0] and ImagePositionPatient [0,0,0].
C7_StrictExtension ==
    /\ [][\A o \in Objs :
            InMRPart(o) =>
                /\ DOMAIN ds[o] \subseteq DOMAIN ds'[o]
                /\ \A a \in DOMAIN ds[o] \ {"Modality", "SOPClassUID"} :
                      ds'[o][a] = ds[o][a]
                /\ DOMAIN file_meta[o] \subseteq DOMAIN file_meta'[o]
                /\ \A a \in DOMAIN file_meta[o] :
                      file_meta'[o][a] = file_meta[o][a]]_vars
    /\ [](\A o, q \in Objs :
            (BaselineDone(o) /\ MRDone(q)) =>
                /\ DOMAIN ds[o] \subseteq DOMAIN ds[q]
                /\ \A a \in DOMAIN ds[o] \
                        ({"Modality", "SOPClassUID"} \cup PerBuildAttributes) :
                      ds[q][a] = ds[o][a]
                /\ filename[o] = filename[q] => ds[q].filename = ds[o].filename
                /\ dt[o] = dt[q] =>
                      \A a \in DateTimeAttributes : ds[q][a] = ds[o][a]
                /\ ds[q].ImageType = <<"DERIVED", "SECONDARY">>
                /\ ds[q].ImageOrientationPatient = <<1, 0, 0, 0, 1, 0>>
                /\ ds[q].ImagePositionPatient = <<0, 0, 0>>
                /\ file_meta[q].TransferSyntaxUID = file_meta[o].TransferSyntaxUID
                /\ file_meta[q].ImplementationVersionName =
                      file_meta[o].ImplementationVersionName)

C7_Witness ==
    \E o, q \in Objs :
        /\ BaselineDone(o) /\ MRDone(q)
        /\ filename[o] = filename[q]
        /\ dt[o] = dt[q]

\* C8: a constructed baseline Dicom has empty SOPClassUID and Modality, and
\* save_as hands the Dataset as it is, with self.filename, to the
\* serializer: nothing is checked first, the Dataset and the file meta are
\* left as they were, and the serializer's failure is what the caller gets.
C8_SaveUnchecked ==
    /\ [](\A o \in Objs :
            BaselineDone(o) => ds[o].SOPClassUID = "" /\ ds[o].Modality = "")
    /\ [][written' # written =>
            /\ \E o \in Objs :
                  /\ Constructed(o)
                  /\ written' = [filename |-> filename[o], ds |-> ds[o],
                                 file_meta |-> file_meta[o]]
            /\ ds' = ds
            /\ file_meta' = file_meta
            /\ raised' \in {"none", "IOError", "EncodingError"}]_vars

C8_Witness ==
    /\ written.filename # ""
    /\ written.ds.Modality = ""
    /\ written.ds.SOPClassUID = ""
    /\ raised = "EncodingError"

\* C9: a construction runs dcm_dictionary_update once and before it assigns
\* anything; the baseline attributes come before StudyInstanceUID, that
\* before the series identifiers, and the MR override and the MR attributes
\* after the whole baseline build.
C9_ConstructionOrder ==
    \A o \in Objs :
        /\ dictUpdates[o] <= 1
        /\ (DOMAIN ds[o] # {} \/ DOMAIN file_meta[o] # {}) =>
              /\ dictUpdates[o] = 1
              /\ \A t \in DOMAIN new_dict_items :
                    t \in DOMAIN DicomDictionary
                    /\ DicomDictionary[t] = new_dict_items[t]
              /\ \A t \in DOMAIN new_dict_items :
                    new_dict_items[t][5] \in DOMAIN keyword_dict
                    /\ keyword_dict[new_dict_items[t][5]] = t
        /\ "StudyInstanceUID" \in DOMAIN ds[o] =>
              {"Modality", "InstanceCreationTime", "ImagePositionPatient"}
                 \subseteq DOMAIN ds[o]
        /\ "SeriesInstanceUID" \in DOMAIN ds[o] =>
              "StudyInstanceUID" \in DOMAIN ds[o]
        /\ ("MediaStorageSOPClassUID" \in DOMAIN file_meta[o]
            \/ "SamplesPerPixel" \in DOMAIN ds[o]
            \/ "B1rms" \in DOMAIN ds[o]
            \/ ("Modality" \in DOMAIN ds[o] /\ ds[o].Modality = "MR")) =>
              {"StudyInstanceUID", "SeriesInstanceUID", "AcquisitionNumber"}
                 \subseteq DOMAIN ds[o]
        /\ Constructed(o) =>
              /\ dictUpdates[o] = 1
              /\ "AcquisitionNumber" \in DOMAIN ds[o]
              /\ kind[o] = "DicomMRI" => "B1rms" \in DOMAIN ds[o]

C9_Witness ==
    \E o, q \in Objs :
        /\ MRDone(o) /\ dictUpdates[o] = 1
        /\ pc[q] = "series" /\ dictUpdates[q] = 1

PrivateKeywords == {new_dict_items[t][5] : t \in DOMAIN new_dict_items}

Registering(o) == pc[o] \in {"dict", "names"}

\* C10: when constructions run dcm_dictionary_update at once, its two steps
\* interleaved in any order, (i) every private keyword in the reverse map
\* points to a tag that is in the dictionary with that keyword, and (ii) once
\* two or more calls have run and none is under way, both maps are what one
\* registration alone leaves.
C10_InterleavedRegistration ==
    /\ \A kw \in PrivateKeywords :
          kw \in DOMAIN keyword_dict =>
              /\ keyword_dict[kw] \in DOMAIN DicomDictionary
              /\ DicomDictionary[keyword_dict[kw]][5] = kw
    /\ (/\ \A o \in Objs : ~Registering(o)
        /\ \E o, q \in Objs : o # q /\ pc[o] # "idle" /\ pc[q] # "idle") =>
          /\ DicomDictionary = new_dict_items @@ StandardDictionary
          /\ keyword_dict =
                [kw \in PrivateKeywords \cup DOMAIN StandardKeywords |->
                    IF kw \in PrivateKeywords
                    THEN CHOOSE t \in DOMAIN new_dict_items :
                            new_dict_items[t][5] = kw
                    ELSE StandardKeywords[kw]]

C10_Witness ==
    \E o, q \in Objs :
        /\ o # q
        /\ pc[o] = "names" /\ pc[q] = "names"
        /\ "PhaseNumber" \notin DOMAIN keyword_dict
====
